---- MODULE Spec2Model ----
(***************************************************************************)
(* Model of tomate, a Pomodoro timer CLI.  Every invocation of the CLI     *)
(* runs one command against two files: the state file (the current         *)
(* status) and the history file (the archive of finished Pomodoros).       *)
(*                                                                         *)
(* The source tree holds the library operations (lib.rs), the typed        *)
(* modules (pomodoro.rs, long_break.rs) and the stand-alone front end      *)
(* (main.rs, struct Program); each of them is modelled as its own action.  *)
(* A file is an Option: <<>> when absent, <<content>> when present.  The   *)
(* content of the state file is a TOML document, modelled as a function    *)
(* from keys to values in which a None field has no key.                   *)
(***************************************************************************)
EXTENDS Integers, Sequences, FiniteSets, TLC

VARIABLES state_file, history_file, now, persisted, last

vars == <<state_file, history_file, now, persisted, last>>

(* ------------------------------ bounds --------------------------------- *)

MaxNow == 1

MaxHistory == 2

\* The wall clock advances by this many seconds between two invocations.
TickSeconds == 1501
\* Timer arithmetic is examined for every start and every reading instant up
\* to MaxInstant and every duration up to MaxDuration, in seconds.
MaxInstant == 6
MaxDuration == 4
\* Durations are formatted for every whole number of seconds up to
\* MaxSeconds, which is past two hours.
MaxSeconds == 7325
\* Templates handed to Pomodoro::format have up to MaxTemplate characters.
MaxTemplate == 3

\* The longest text given to duration_parser.
MaxInput == 4

(* ------------------------------ options -------------------------------- *)

None == <<>>

Some(x) == <<x>>

(* ------------------------- Timer and Pomodoro -------------------------- *)

Timer_new(started_at, duration) ==
  [started_at |-> started_at, duration |-> duration]

ends_at(t) == t.started_at + t.duration

\* Ord::clamp: min when x < min, max when x > max, x otherwise.
clamp(x, min, max) == IF x < min THEN min ELSE IF x > max THEN max ELSE x

elapsed_unclamped(t, at) == at - t.started_at

elapsed(t, at) == clamp(at - t.started_at, 0, t.duration)

time_remaining(t, at) == t.duration - elapsed_unclamped(t, at)

remaining(t, at) == clamp(t.duration - elapsed(t, at), 0, t.duration)

done_inclusive(t, at) == at >= ends_at(t)

done(t, at) == at > ends_at(t)

Pomodoro_new(starts_at, duration) ==
  [timer |-> Timer_new(starts_at, duration),
   description |-> None, tags |-> None, finished_at |-> None]

set_description(p, description) == [p EXCEPT !.description = Some(description)]

set_tags(p, tags) == [p EXCEPT !.tags = Some(tags)]

Pomodoro_finish_elapsed(p, t) ==
  [p EXCEPT !.finished_at = Some(t - p.timer.started_at)]

Pomodoro_finish(p, t) == [p EXCEPT !.finished_at = Some(t)]

(* ------------------------------ Status --------------------------------- *)

Inactive == [tag |-> "Inactive"]

Active(p) == [tag |-> "Active", pom |-> p]

ShortBreak(t) == [tag |-> "ShortBreak", timer |-> t]

LongBreak(t) == [tag |-> "LongBreak", timer |-> t]

Err(msg) == [tag |-> "Err", msg |-> msg]

Variants == {"Inactive", "Active", "ShortBreak", "LongBreak"}

(* --------------------------- TOML documents ---------------------------- *)

EmptyDoc == [k \in {} |-> 0]

\* A file whose content is not a status document.
Garbage == ("garbage" :> TRUE)

\* serde skips a None field when it writes TOML.
OptField(k, o) == IF o = None THEN EmptyDoc ELSE (k :> o[1])

\* A missing key reads back as None.
GetOpt(doc, k) == IF k \in DOMAIN doc THEN Some(doc[k]) ELSE None

\* A text is a sequence of characters.
DigitChar == <<"0", "1", "2", "3", "4", "5", "6", "7", "8", "9">>

Digits == {DigitChar[i] : i \in 1..10}

\* format!("{}", n) of a non-negative integer.
RECURSIVE Decimal(_)
Decimal(n) ==
  IF n < 10 THEN <<DigitChar[n + 1]>>
  ELSE Decimal(n \div 10) \o <<DigitChar[(n % 10) + 1]>>

\* str::parse::<i64> of a text of digits.
RECURSIVE parse_int(_)
parse_int(s) ==
  IF s = <<>> THEN 0
  ELSE parse_int(SubSeq(s, 1, Len(s) - 1)) * 10
         + ((CHOOSE i \in 1..10 : DigitChar[i] = s[Len(s)]) - 1)

\* DateTime::to_rfc3339 keeps the whole instant, and parsing the text gives
\* the instant back; the calendar text of an instant is kept as a "T" and
\* the digits of its second count.
to_rfc3339(t) == <<"T">> \o Decimal(t)

DateTime_parse(s) == parse_int(Tail(s))

\* Display of a TimeDelta of d whole seconds: "P0D" for the zero delta,
\* "PT<d>S" for a positive one, "-PT<|d|>S" for a negative one.
TimeDelta_to_string(d) ==
  IF d = 0 THEN <<"P", "0", "D">>
  ELSE IF d < 0 THEN <<"-", "P", "T">> \o Decimal(0 - d) \o <<"S">>
  ELSE <<"P", "T">> \o Decimal(d) \o <<"S">>

\* The regular expression ^PT([0-9]+)S$ of from_iso8601 and of
\* duration::deserialize: the seconds when the text matches, None when it
\* does not.
from_iso8601(s) ==
  IF /\ Len(s) >= 4
     /\ s[1] = "P" /\ s[2] = "T" /\ s[Len(s)] = "S"
     /\ \A i \in 3..(Len(s) - 1) : s[i] \in Digits
  THEN Some(parse_int(SubSeq(s, 3, Len(s) - 1)))
  ELSE None

timer_to_toml(t) ==
  ("started_at" :> to_rfc3339(t.started_at))
    @@ ("duration" :> TimeDelta_to_string(t.duration))

timer_from_toml(doc) ==
  Timer_new(DateTime_parse(doc["started_at"]), from_iso8601(doc["duration"])[1])

pom_to_toml_drops_tags(p) ==
  timer_to_toml(p.timer)
    @@ OptField("description", p.description)
    @@ OptField("finished_at", p.finished_at)

pom_to_toml(p) ==
  timer_to_toml(p.timer)
    @@ OptField("description", p.description)
    @@ OptField("tags", p.tags)
    @@ OptField("finished_at", p.finished_at)

pom_from_toml(doc) ==
  [timer |-> timer_from_toml(doc),
   description |-> GetOpt(doc, "description"),
   tags |-> GetOpt(doc, "tags"),
   finished_at |-> GetOpt(doc, "finished_at")]

to_toml(status) ==
  IF status.tag = "Active"
  THEN ("status" :> "Active") @@ pom_to_toml(status.pom)
  ELSE ("status" :> status.tag) @@ timer_to_toml(status.timer)

HasTimer(doc) == {"started_at", "duration"} \subseteq DOMAIN doc

\* The result of a load that panics on the unwrap of from_iso8601: the
\* command is aborted before it changes anything.
Panicked == [tag |-> "Err", msg |-> "panicked: Failed to apply regex to duration string"]

from_toml(doc) ==
  IF "status" \notin DOMAIN doc \/ ~HasTimer(doc)
  THEN Err("Failed to parse state file")
  ELSE IF from_iso8601(doc["duration"]) = None THEN Panicked
  ELSE IF doc["status"] = "Active" THEN Active(pom_from_toml(doc))
  ELSE IF doc["status"] = "ShortBreak" THEN ShortBreak(timer_from_toml(doc))
  ELSE IF doc["status"] = "LongBreak" THEN LongBreak(timer_from_toml(doc))
  ELSE Err("Failed to parse state file")

(* ------------------------- Status::load / save ------------------------- *)

\* io names the file-system call that fails during the command, "none" when
\* every call succeeds.
IoFaults ==
  {"none", "load", "write", "write_partial", "remove", "remove_history",
   "append", "systemd"}

\* Status::timer: the timer of a status that has one.
Status_timer(status) ==
  IF status.tag = "Active" THEN status.pom.timer ELSE status.timer

Status_load_expiring(sf, io) ==
  IF io = "load" THEN Err("Failed to read state file")
  ELSE IF sf = None THEN Inactive
  ELSE IF from_toml(sf[1]).tag = "Err" THEN from_toml(sf[1])
  ELSE IF done(Status_timer(from_toml(sf[1])), now) THEN Inactive
  ELSE from_toml(sf[1])

Status_load(sf, io) ==
  IF io = "load" THEN Err("Failed to read state file")
  ELSE IF sf # None THEN from_toml(sf[1])
  ELSE Inactive

\* std::fs::write either fails before touching the file or leaves a
\* truncated file behind.
fs_write(sf, contents, io) ==
  IF io = "write" THEN [sf |-> sf, result |-> "io error"]
  ELSE IF io = "write_partial" THEN [sf |-> Some(Garbage), result |-> "io error"]
  ELSE [sf |-> Some(contents), result |-> "Ok"]

\* std::fs::remove_file fails on a missing file.
fs_remove(sf, io) ==
  IF sf = None \/ io = "remove" THEN [sf |-> sf, result |-> "io error"]
  ELSE [sf |-> None, result |-> "Ok"]

Status_save_writes_inactive(status, sf, io) ==
  IF status.tag = "Inactive"
  THEN fs_write(sf, "status" :> "Inactive", io)
  ELSE fs_write(sf, to_toml(status), io)

Status_save_checked(status, sf, io) ==
  IF status.tag = "Inactive"
  THEN IF sf = None THEN [sf |-> sf, result |-> "Ok"] ELSE fs_remove(sf, io)
  ELSE fs_write(sf, to_toml(status), io)

Status_save(status, sf, io) ==
  IF status.tag = "Inactive" THEN fs_remove(sf, io)
  ELSE fs_write(sf, to_toml(status), io)

(* ------------------------------ History -------------------------------- *)

History_entries(hf) == IF hf = None THEN <<>> ELSE hf[1]

\* Every record is deserialized; a record whose duration text the regex
\* rejects panics the load (time/mod.rs:28-39).
History_load(hf) ==
  IF \E i \in 1..Len(History_entries(hf)) :
       from_iso8601(History_entries(hf)[i]["duration"]) = None
  THEN Panicked
  ELSE [pomodoros |-> [i \in 1..Len(History_entries(hf)) |->
                         pom_from_toml(History_entries(hf)[i])]]

History_append_front(pomodoro, hf, io) ==
  IF io = "append" THEN [hf |-> hf, result |-> "io error"]
  ELSE [hf |-> Some(<<pom_to_toml(pomodoro)>> \o History_entries(hf)),
        result |-> "Ok"]

History_append(pomodoro, hf, io) ==
  IF io = "append" THEN [hf |-> hf, result |-> "io error"]
  ELSE [hf |-> Some(Append(History_entries(hf), pom_to_toml(pomodoro))),
        result |-> "Ok"]

(* ------------------------------- hooks --------------------------------- *)

\* What the hooks directory holds for the hook a command looks up: no file,
\* a script that exits 0, a script that exits non-zero, or a file that
\* cannot be spawned.
HookFiles == {"absent", "ok", "nonzero", "unexecutable"}

\* The hooks of an environment in which every hook that is present runs and
\* exits 0.
NominalHooks == {"absent", "ok"}

\* The hooks of an environment in which a hook that is present fails: it
\* exits non-zero or cannot be spawned.
FailingHooks == {"absent", "nonzero", "unexecutable"}

\* hooks.rs: the hook is spawned when its file exists; only a failure to
\* spawn it is an error, the exit status is not looked at.
run_hook(name, hk) ==
  [log |-> <<[name |-> name, spawned |-> hk \in {"ok", "nonzero"}]>>,
   result |-> IF hk = "unexecutable" THEN "Failed to execute hook" ELSE "Ok"]

run_start_hook(hk) == run_hook("start", hk)

run_stop_hook(hk) == run_hook("stop", hk)

run_break_hook(hk) == run_hook("break", hk)

\* hooks::Hook::run of pomodoro.rs and long_break.rs: look up the executable
\* named after the event and run it when present; a failure of the hook is
\* logged and not handed to the caller.
Hook_run(event, hk) == [log |-> run_hook(event, hk).log, result |-> "Ok"]

(* --------------------------- command results --------------------------- *)

\* What one command leaves behind: the two files, its result, the hooks it
\* dispatched, the status it loaded and the status it persisted (if any).
Outcome(sf, hf, result, hooks, loaded, saved) ==
  [sf |-> sf, hf |-> hf, result |-> result, hooks |-> hooks,
   loaded |-> loaded, saved |-> saved]

Rejected(sf, hf, msg, loaded) == Outcome(sf, hf, msg, <<>>, loaded, None)

LoadFailed(sf, hf, status) == Rejected(sf, hf, status.msg, "Err")

(* ------------------------------- lib.rs -------------------------------- *)

clear_keeps_file(sf, hf, hk, io) ==
  IF sf # None
  THEN LET h == run_stop_hook(hk) IN
       Outcome(sf, hf, h.result, h.log, "NotLoaded", Some(Inactive))
  ELSE Outcome(sf, hf, "Ok", <<>>, "NotLoaded", None)

clear_always_hooks(sf, hf, hk, io) ==
  LET rm == IF sf # None THEN fs_remove(sf, io) ELSE [sf |-> sf, result |-> "Ok"]
      h == run_stop_hook(hk)
  IN IF rm.result # "Ok"
     THEN Rejected(sf, hf, rm.result, "NotLoaded")
     ELSE Outcome(rm.sf, hf, h.result, h.log, "NotLoaded", Some(Inactive))

clear(sf, hf, hk, io) ==
  IF sf # None
  THEN LET rm == fs_remove(sf, io) IN
       IF rm.result # "Ok"
       THEN Rejected(sf, hf, rm.result, "NotLoaded")
       ELSE LET h == run_stop_hook(hk) IN
            Outcome(rm.sf, hf, h.result, h.log, "NotLoaded", Some(Inactive))
  ELSE Outcome(sf, hf, "Ok", <<>>, "NotLoaded", None)

\* Save next_status, then run the hook: the shared tail of the start
\* operations.
hook_then_save(next_status, sf, hf, h, io) ==
  LET sv == Status_save(next_status, sf, io) IN
  IF sv.result # "Ok"
  THEN Outcome(sv.sf, hf, sv.result, h.log, "Inactive", None)
  ELSE Outcome(sv.sf, hf, h.result, h.log, "Inactive", Some(next_status))

save_then_hook(next_status, sf, hf, h, io) ==
  LET sv == Status_save(next_status, sf, io) IN
  IF sv.result # "Ok"
  THEN Outcome(sv.sf, hf, sv.result, <<>>, "Inactive", None)
  ELSE Outcome(sv.sf, hf, h.result, h.log, "Inactive", Some(next_status))

start_unguarded(sf, hf, pomodoro, hk, io) ==
  LET status == Status_load(sf, io) IN
  IF status.tag = "Err" THEN LoadFailed(sf, hf, status)
  ELSE [save_then_hook(Active(pomodoro), sf, hf, run_start_hook(hk), io)
          EXCEPT !.loaded = status.tag]

start(sf, hf, pomodoro, hk, io) ==
  LET status == Status_load(sf, io) IN
  CASE status.tag = "Err" -> LoadFailed(sf, hf, status)
    [] status.tag \in {"ShortBreak", "LongBreak"} ->
         Rejected(sf, hf, "You're currently taking a break!", status.tag)
    [] status.tag = "Active" ->
         Rejected(sf, hf, "There is already an unfinished Pomodoro", status.tag)
    [] status.tag = "Inactive" ->
         save_then_hook(Active(pomodoro), sf, hf, run_start_hook(hk), io)

take_short_break_unguarded(sf, hf, timer, hk, io) ==
  LET status == Status_load(sf, io) IN
  IF status.tag = "Err" THEN LoadFailed(sf, hf, status)
  ELSE [save_then_hook(ShortBreak(timer), sf, hf, run_break_hook(hk), io)
          EXCEPT !.loaded = status.tag]

take_short_break(sf, hf, timer, hk, io) ==
  LET status == Status_load(sf, io) IN
  CASE status.tag = "Err" -> LoadFailed(sf, hf, status)
    [] status.tag = "Active" ->
         Rejected(sf, hf, "Finish your current timer before taking a break",
                  status.tag)
    [] status.tag \in {"ShortBreak", "LongBreak"} ->
         Rejected(sf, hf, "You are already taking a break", status.tag)
    [] status.tag = "Inactive" ->
         save_then_hook(ShortBreak(timer), sf, hf, run_break_hook(hk), io)

\* lib.rs:182 builds Status::ShortBreak here, not Status::LongBreak.
take_long_break(sf, hf, timer, hk, io) ==
  LET status == Status_load(sf, io) IN
  CASE status.tag = "Err" -> LoadFailed(sf, hf, status)
    [] status.tag = "Active" ->
         Rejected(sf, hf, "Finish your current timer before taking a break",
                  status.tag)
    [] status.tag \in {"ShortBreak", "LongBreak"} ->
         Rejected(sf, hf, "You are already taking a break", status.tag)
    [] status.tag = "Inactive" ->
         save_then_hook(ShortBreak(timer), sf, hf, run_break_hook(hk), io)

finish_archives_breaks(sf, hf, hk, io) ==
  LET status == Status_load(sf, io) IN
  CASE status.tag = "Err" -> LoadFailed(sf, hf, status)
    [] status.tag = "Inactive" ->
         Rejected(sf, hf, "No active Pomodoro. Start one with \"tomate start\"",
                  status.tag)
    [] OTHER ->
         LET pom == IF status.tag = "Active" THEN status.pom
                    ELSE Pomodoro_new(status.timer.started_at,
                                      status.timer.duration)
             ap == History_append(pom, hf, io)
         IN IF ap.result # "Ok"
            THEN Rejected(sf, ap.hf, ap.result, status.tag)
            ELSE [clear(sf, ap.hf, hk, io) EXCEPT !.loaded = status.tag]

finish_accepts_inactive(sf, hf, hk, io) ==
  LET status == Status_load(sf, io) IN
  CASE status.tag = "Err" -> LoadFailed(sf, hf, status)
    [] status.tag = "Active" ->
         LET ap == History_append(status.pom, hf, io) IN
         IF ap.result # "Ok"
         THEN Rejected(sf, ap.hf, ap.result, status.tag)
         ELSE [clear(sf, ap.hf, hk, io) EXCEPT !.loaded = status.tag]
    [] OTHER -> [clear(sf, hf, hk, io) EXCEPT !.loaded = status.tag]

finish_clears_first(sf, hf, hk, io) ==
  LET status == Status_load(sf, io) IN
  CASE status.tag = "Err" -> LoadFailed(sf, hf, status)
    [] status.tag = "Inactive" ->
         Rejected(sf, hf, "No active Pomodoro. Start one with \"tomate start\"",
                  status.tag)
    [] status.tag \in {"ShortBreak", "LongBreak"} ->
         [clear(sf, hf, hk, io) EXCEPT !.loaded = status.tag]
    [] status.tag = "Active" ->
         LET c == clear(sf, hf, hk, io) IN
         IF c.result # "Ok"
         THEN [c EXCEPT !.loaded = status.tag]
         ELSE LET ap == History_append(status.pom, c.hf, io) IN
              [c EXCEPT !.hf = ap.hf, !.result = ap.result,
                        !.loaded = status.tag]

finish_repairing(sf, hf, hk, io) ==
  LET status == Status_load(sf, io) IN
  CASE status.tag = "Err" ->
         [clear(sf, hf, hk, io) EXCEPT !.loaded = status.tag]
    [] status.tag = "Inactive" ->
         Rejected(sf, hf, "No active Pomodoro. Start one with \"tomate start\"",
                  status.tag)
    [] status.tag \in {"ShortBreak", "LongBreak"} ->
         [clear(sf, hf, hk, io) EXCEPT !.loaded = status.tag]
    [] status.tag = "Active" ->
         LET ap == History_append(status.pom, hf, io) IN
         IF ap.result # "Ok"
         THEN Rejected(sf, ap.hf, ap.result, status.tag)
         ELSE [clear(sf, ap.hf, hk, io) EXCEPT !.loaded = status.tag]

finish(sf, hf, hk, io) ==
  LET status == Status_load(sf, io) IN
  CASE status.tag = "Err" -> LoadFailed(sf, hf, status)
    [] status.tag = "Inactive" ->
         Rejected(sf, hf, "No active Pomodoro. Start one with \"tomate start\"",
                  status.tag)
    [] status.tag \in {"ShortBreak", "LongBreak"} ->
         [clear(sf, hf, hk, io) EXCEPT !.loaded = status.tag]
    [] status.tag = "Active" ->
         LET ap == History_append(status.pom, hf, io) IN
         IF ap.result # "Ok"
         THEN Rejected(sf, ap.hf, ap.result, status.tag)
         ELSE [clear(sf, ap.hf, hk, io) EXCEPT !.loaded = status.tag]

purge_keeps_history(sf, hf, io) ==
  LET rm == IF sf # None THEN fs_remove(sf, io) ELSE [sf |-> sf, result |-> "Ok"]
  IN
  IF rm.result # "Ok"
  THEN Rejected(sf, hf, rm.result, "NotLoaded")
  ELSE Outcome(rm.sf, hf, "Ok", <<>>, "NotLoaded", Some(Inactive))

purge(sf, hf, io) ==
  LET rm == IF sf # None THEN fs_remove(sf, io) ELSE [sf |-> sf, result |-> "Ok"]
  IN
  IF rm.result # "Ok"
  THEN Rejected(sf, hf, rm.result, "NotLoaded")
  ELSE IF hf # None /\ io = "remove_history"
  THEN Outcome(rm.sf, hf, "io error", <<>>, "NotLoaded", Some(Inactive))
  ELSE Outcome(rm.sf, None, "Ok", <<>>, "NotLoaded", Some(Inactive))

(* ----------------------------- pomodoro.rs ----------------------------- *)

pomodoro_duration == 1500

short_break_duration == 300

long_break_duration == 1200

unwrap_or(o, default) == IF o = None THEN default ELSE o[1]

\* systemd-run schedules the "timer check" invocation; failing to spawn it
\* is an error of the command.
systemd_run(r, io) ==
  IF r.result = "Ok" /\ io = "systemd"
  THEN [r EXCEPT !.result = "Failed to schedule systemd timer"]
  ELSE r

\* The Pomodoro that pomodoro::start builds from its arguments.
pomodoro_start_pom(t, duration, description, tags) ==
  LET pom == Pomodoro_new(t, unwrap_or(duration, pomodoro_duration)) IN
  set_tags(IF description = None THEN pom
           ELSE set_description(pom, description[1]), tags)

pomodoro_start(sf, hf, t, duration, description, tags, hk, io) ==
  LET pom == pomodoro_start_pom(t, duration, description, tags)
      status == Status_load(sf, io)
  IN
  CASE status.tag = "Err" -> LoadFailed(sf, hf, status)
    [] status.tag \in {"ShortBreak", "LongBreak"} ->
         Rejected(sf, hf, "You're currently taking a break!", status.tag)
    [] status.tag = "Active" ->
         Rejected(sf, hf, "There is already an unfinished Pomodoro", status.tag)
    [] status.tag = "Inactive" ->
         systemd_run(save_then_hook(Active(pom), sf, hf,
                                    Hook_run("PomodoroStart", hk), io), io)

pomodoro_stop_unstamped(sf, hf, t, hk, hk_stop, io) ==
  LET status == Status_load(sf, io) IN
  CASE status.tag = "Err" -> LoadFailed(sf, hf, status)
    [] status.tag = "Active" ->
         LET h == Hook_run("PomodoroEnd", hk) IN
         IF h.result # "Ok"
         THEN Outcome(sf, hf, h.result, h.log, status.tag, None)
         ELSE LET ap == History_append(status.pom, hf, io) IN
              IF ap.result # "Ok"
              THEN Outcome(sf, ap.hf, ap.result, h.log, status.tag, None)
              ELSE LET c == clear(sf, ap.hf, hk_stop, io) IN
                   [c EXCEPT !.loaded = status.tag, !.hooks = h.log \o c.hooks]
    [] OTHER -> Outcome(sf, hf, "Ok", <<>>, status.tag, None)

pomodoro_stop(sf, hf, t, hk, hk_stop, io) ==
  LET status == Status_load(sf, io) IN
  CASE status.tag = "Err" -> LoadFailed(sf, hf, status)
    [] status.tag = "Active" ->
         LET h == Hook_run("PomodoroEnd", hk) IN
         IF h.result # "Ok"
         THEN Outcome(sf, hf, h.result, h.log, status.tag, None)
         ELSE LET ap == History_append(Pomodoro_finish(status.pom, t), hf, io) IN
              IF ap.result # "Ok"
              THEN Outcome(sf, ap.hf, ap.result, h.log, status.tag, None)
              ELSE LET c == clear(sf, ap.hf, hk_stop, io) IN
                   [c EXCEPT !.loaded = status.tag, !.hooks = h.log \o c.hooks]
    [] OTHER -> Outcome(sf, hf, "Ok", <<>>, status.tag, None)

(* ---------------------------- long_break.rs ---------------------------- *)

long_break_start_short(sf, hf, t, duration, hk, io) ==
  LET timer == Timer_new(t, unwrap_or(duration, long_break_duration))
      status == Status_load(sf, io)
  IN
  CASE status.tag = "Err" -> LoadFailed(sf, hf, status)
    [] status.tag = "Active" ->
         Rejected(sf, hf, "Finish your current timer before taking a break",
                  status.tag)
    [] status.tag \in {"ShortBreak", "LongBreak"} ->
         Rejected(sf, hf, "You are already taking a break", status.tag)
    [] status.tag = "Inactive" ->
         systemd_run(save_then_hook(ShortBreak(timer), sf, hf,
                                    Hook_run("LongBreakStart", hk), io), io)

long_break_start(sf, hf, t, duration, hk, io) ==
  LET timer == Timer_new(t, unwrap_or(duration, long_break_duration))
      status == Status_load(sf, io)
  IN
  CASE status.tag = "Err" -> LoadFailed(sf, hf, status)
    [] status.tag = "Active" ->
         Rejected(sf, hf, "Finish your current timer before taking a break",
                  status.tag)
    [] status.tag \in {"ShortBreak", "LongBreak"} ->
         Rejected(sf, hf, "You are already taking a break", status.tag)
    [] status.tag = "Inactive" ->
         systemd_run(save_then_hook(LongBreak(timer), sf, hf,
                                    Hook_run("LongBreakStart", hk), io), io)

long_break_stop_any(sf, hf, hk, hk_stop, io) ==
  LET status == Status_load(sf, io) IN
  CASE status.tag = "Err" -> LoadFailed(sf, hf, status)
    [] status.tag \in {"ShortBreak", "LongBreak"} ->
         LET h == Hook_run("LongBreakEnd", hk) IN
         IF h.result # "Ok"
         THEN Outcome(sf, hf, h.result, h.log, status.tag, None)
         ELSE LET c == clear(sf, hf, hk_stop, io) IN
              [c EXCEPT !.loaded = status.tag, !.hooks = h.log \o c.hooks]
    [] OTHER -> Outcome(sf, hf, "Ok", <<>>, status.tag, None)

long_break_stop(sf, hf, hk, hk_stop, io) ==
  LET status == Status_load(sf, io) IN
  CASE status.tag = "Err" -> LoadFailed(sf, hf, status)
    [] status.tag = "LongBreak" ->
         LET h == Hook_run("LongBreakEnd", hk) IN
         IF h.result # "Ok"
         THEN Outcome(sf, hf, h.result, h.log, status.tag, None)
         ELSE LET c == clear(sf, hf, hk_stop, io) IN
              [c EXCEPT !.loaded = status.tag, !.hooks = h.log \o c.hooks]
    [] OTHER -> Outcome(sf, hf, "Ok", <<>>, status.tag, None)

(* ------------------------- main.rs: struct Program --------------------- *)

\* The Status of main.rs has the variants Inactive, Active and ShortBreak.
Program_from_toml(doc) ==
  IF from_toml(doc).tag = "LongBreak"
  THEN Err("Failed to parse state file") ELSE from_toml(doc)

Program_load_state(sf, io) ==
  IF sf # None
  THEN IF io = "load" THEN Err("Failed to read state file")
       ELSE Program_from_toml(sf[1])
  ELSE Inactive

\* The Pomodoro that the Start command builds (main.rs:512-523).
Program_start_pom(t, duration, description, tags) ==
  LET pom == Pomodoro_new(t, unwrap_or(duration, pomodoro_duration))
      described == IF description = None THEN pom
                   ELSE set_description(pom, description[1])
  IN IF tags = None THEN described ELSE set_tags(described, tags[1])

\* create_dir_all and std::fs::write of the new status, then the hook.
Program_write_then_hook(next_status, sf, hf, h, io) ==
  LET w == fs_write(sf, to_toml(next_status), io) IN
  IF w.result # "Ok"
  THEN Outcome(w.sf, hf, w.result, <<>>, "Inactive", None)
  ELSE Outcome(w.sf, hf, h.result, h.log, "Inactive", Some(next_status))

Program_start(sf, hf, pomodoro, hk, io) ==
  LET status == Program_load_state(sf, io) IN
  CASE status.tag = "Err" -> LoadFailed(sf, hf, status)
    [] status.tag = "ShortBreak" ->
         Rejected(sf, hf, "You're currently taking a break!", status.tag)
    [] status.tag = "Active" ->
         Rejected(sf, hf, "There is already an unfinished Pomodoro", status.tag)
    [] status.tag = "Inactive" ->
         Program_write_then_hook(Active(pomodoro), sf, hf, run_start_hook(hk), io)

Program_clear_self(sf, hf, hk, io) ==
  IF sf # None
  THEN LET rm == fs_remove(sf, io) IN
       IF rm.result # "Ok"
       THEN Rejected(sf, hf, rm.result, "NotLoaded")
       ELSE LET h == run_stop_hook(hk) IN
            Outcome(rm.sf, hf, h.result, h.log, "NotLoaded", Some(Inactive))
  ELSE Outcome(sf, hf, "Ok", <<>>, "NotLoaded", None)

Program_clear(sf, hf, hk, io) ==
  LET status == Program_load_state(sf, io) IN
  IF status.tag = "Err" THEN LoadFailed(sf, hf, status)
  ELSE [Program_clear_self(sf, hf, hk, io) EXCEPT !.loaded = status.tag]

Program_finish(sf, hf, hk, io) ==
  LET status == Program_load_state(sf, io) IN
  CASE status.tag = "Err" -> LoadFailed(sf, hf, status)
    [] status.tag = "Inactive" ->
         Rejected(sf, hf, "No active Pomodoro. Start one with \"tomate start\"",
                  status.tag)
    [] status.tag = "ShortBreak" ->
         [Program_clear_self(sf, hf, hk, io) EXCEPT !.loaded = status.tag]
    [] status.tag = "Active" ->
         LET ap == History_append(status.pom, hf, io) IN
         IF ap.result # "Ok"
         THEN Rejected(sf, ap.hf, ap.result, status.tag)
         ELSE [Program_clear_self(sf, ap.hf, hk, io) EXCEPT !.loaded = status.tag]

Program_take_break(sf, hf, timer, hk, io) ==
  LET status == Program_load_state(sf, io) IN
  CASE status.tag = "Err" -> LoadFailed(sf, hf, status)
    [] status.tag = "ShortBreak" ->
         Rejected(sf, hf, "You are already taking a break", status.tag)
    [] status.tag = "Active" ->
         Rejected(sf, hf, "Finish your current timer before taking a break",
                  status.tag)
    [] status.tag = "Inactive" ->
         Program_write_then_hook(ShortBreak(timer), sf, hf, run_break_hook(hk), io)

Program_purge(sf, hf, io) == purge(sf, hf, io)

(* ------------------------------ inputs --------------------------------- *)

\* --duration: not given (the configured default applies) or given.
DurationOpts == {None, Some(0)}

\* The arguments of the Start command of main.rs: a duration alone, or a
\* description and tags with the default duration.
StartArgs ==
  {[duration |-> Some(0), description |-> None, tags |-> None],
   [duration |-> None, description |-> Some("write"),
    tags |-> Some(<<"a", "b">>)]}

\* The arguments of pomodoro::start, whose tags are a slice.
PomodoroStartArgs ==
  {[duration |-> None, description |-> Some("write"), tags |-> <<"a", "b">>]}

\* The Pomodoros a caller of start can build at instant t.
Pomodoros(t) ==
  {Program_start_pom(t, a.duration, a.description, a.tags) : a \in StartArgs}

Timers(t, default) ==
  {Timer_new(t, unwrap_or(d, default)) : d \in DurationOpts}

(* --------------------------- state machine ----------------------------- *)

Init ==
  /\ state_file = None
  /\ history_file = None
  /\ now = 0
  /\ persisted = Inactive
  /\ last = [op |-> "init", result |-> "Ok", hooks |-> <<>>,
             loaded |-> "NotLoaded", had_state |-> FALSE,
             had_history |-> FALSE, changed |-> FALSE]

\* One invocation: the command's outcome replaces the files; persisted keeps
\* the status handed to the last save or delete that succeeded; last records
\* the command, the status it loaded, its result, the hooks it dispatched,
\* which of the two files existed when it began and whether it changed
\* either of them.
Apply(op, r) ==
  /\ Len(History_entries(r.hf)) <= MaxHistory
  /\ state_file' = r.sf
  /\ history_file' = r.hf
  /\ persisted' = IF r.saved = None THEN persisted ELSE r.saved[1]
  /\ last' = [op |-> op, result |-> r.result, hooks |-> r.hooks,
              loaded |-> r.loaded, had_state |-> state_file # None,
              had_history |-> history_file # None,
              changed |-> (r.sf # state_file \/ r.hf # history_file)]
  /\ UNCHANGED now

Tick ==
  /\ now < MaxNow * TickSeconds
  /\ now' = now + TickSeconds
  /\ UNCHANGED <<state_file, history_file, persisted, last>>

Start(H, F) ==
  \E pom \in Pomodoros(now), hk \in H, io \in F :
    Apply("start", start(state_file, history_file, pom, hk, io))

TakeShortBreak(H, F) ==
  \E timer \in Timers(now, short_break_duration), hk \in H, io \in F :
    Apply("take_short_break",
          take_short_break(state_file, history_file, timer, hk, io))

TakeLongBreak(H, F) ==
  \E timer \in Timers(now, long_break_duration), hk \in H, io \in F :
    Apply("take_long_break",
          take_long_break(state_file, history_file, timer, hk, io))

Finish(H, F) ==
  \E hk \in H, io \in F :
    Apply("finish", finish(state_file, history_file, hk, io))

Clear(H, F) ==
  \E hk \in H, io \in F :
    Apply("clear", clear(state_file, history_file, hk, io))

Purge(F) ==
  \E io \in F : Apply("purge", purge(state_file, history_file, io))

PomodoroStart(H, F) ==
  \E a \in PomodoroStartArgs, hk \in H, io \in F :
    Apply("pomodoro_start",
          pomodoro_start(state_file, history_file, now, a.duration,
                         a.description, a.tags, hk, io))

PomodoroStop(H, F) ==
  \E hk \in H, hk_stop \in H, io \in F :
    Apply("pomodoro_stop",
          pomodoro_stop(state_file, history_file, now, hk, hk_stop, io))

LongBreakStart(H, F) ==
  \E d \in DurationOpts, hk \in H, io \in F :
    Apply("long_break_start",
          long_break_start(state_file, history_file, now, d, hk, io))

LongBreakStop(H, F) ==
  \E hk \in H, hk_stop \in H, io \in F :
    Apply("long_break_stop",
          long_break_stop(state_file, history_file, hk, hk_stop, io))

ProgramStart(H, F) ==
  \E pom \in Pomodoros(now), hk \in H, io \in F :
    Apply("Program_start", Program_start(state_file, history_file, pom, hk, io))

ProgramFinish(H, F) ==
  \E hk \in H, io \in F :
    Apply("Program_finish", Program_finish(state_file, history_file, hk, io))

ProgramClear(H, F) ==
  \E hk \in H, io \in F :
    Apply("Program_clear", Program_clear(state_file, history_file, hk, io))

ProgramTakeBreak(H, F) ==
  \E timer \in Timers(now, short_break_duration), hk \in H, io \in F :
    Apply("Program_take_break",
          Program_take_break(state_file, history_file, timer, hk, io))

ProgramPurge(F) ==
  \E io \in F :
    Apply("Program_purge", Program_purge(state_file, history_file, io))

\* The commands in an environment where every file-system call succeeds and
\* every hook that is present can be spawned.
NoFault == {"none"}

Next ==
  \/ Tick
  \/ Start(NominalHooks, NoFault)
  \/ TakeShortBreak(NominalHooks, NoFault)
  \/ TakeLongBreak(NominalHooks, NoFault)
  \/ Finish(NominalHooks, NoFault)
  \/ Clear(NominalHooks, NoFault)
  \/ Purge(NoFault)
  \/ PomodoroStart(NominalHooks, NoFault)
  \/ PomodoroStop(NominalHooks, NoFault)
  \/ LongBreakStart(NominalHooks, NoFault)
  \/ LongBreakStop(NominalHooks, NoFault)
  \/ ProgramStart(NominalHooks, NoFault)
  \/ ProgramFinish(NominalHooks, NoFault)
  \/ ProgramClear(NominalHooks, NoFault)
  \/ ProgramTakeBreak(NominalHooks, NoFault)
  \/ ProgramPurge(NoFault)

Spec == Init /\ [][Next]_vars

\* The same commands, starting with no state file or with a state file that
\* is not a status document.
CorruptInit ==
  /\ state_file \in {None, Some(Garbage)}
  /\ history_file = None
  /\ now = 0
  /\ persisted = Inactive
  /\ last = [op |-> "init", result |-> "Ok", hooks |-> <<>>,
             loaded |-> "NotLoaded", had_state |-> FALSE,
             had_history |-> FALSE, changed |-> FALSE]

SpecCorrupt == CorruptInit /\ [][Next]_vars

\* The same commands in an environment where any one file-system call of a
\* command may fail and a hook may exit non-zero or fail to start.
\* Each command is offered the failures of the calls it makes.
SaveFaults == {"none", "load", "write", "write_partial"}

ScheduleFaults == SaveFaults \cup {"systemd"}

FinishFaults == {"none", "load", "append", "remove"}

ClearFaults == {"none", "load", "remove"}

PurgeFaults == {"none", "remove", "remove_history"}

FaultNext ==
  \/ Tick
  \/ Start(FailingHooks, SaveFaults)
  \/ TakeShortBreak(FailingHooks, SaveFaults)
  \/ TakeLongBreak(FailingHooks, SaveFaults)
  \/ Finish(FailingHooks, FinishFaults)
  \/ Clear(FailingHooks, ClearFaults)
  \/ Purge(PurgeFaults)
  \/ PomodoroStart(FailingHooks, ScheduleFaults)
  \/ PomodoroStop(FailingHooks, FinishFaults)
  \/ LongBreakStart(FailingHooks, ScheduleFaults)
  \/ LongBreakStop(FailingHooks, ClearFaults)
  \/ ProgramStart(FailingHooks, SaveFaults)
  \/ ProgramFinish(FailingHooks, FinishFaults)
  \/ ProgramClear(FailingHooks, ClearFaults)
  \/ ProgramTakeBreak(FailingHooks, SaveFaults)
  \/ ProgramPurge(PurgeFaults)

SpecFault == Init /\ [][FaultNext]_vars

\* The start and break-start commands with failing file-system calls and
\* failing hooks, and a clear that succeeds to leave the status again.
StartFaultNext ==
  \/ Tick
  \/ Start(HookFiles, SaveFaults)
  \/ TakeShortBreak(HookFiles, SaveFaults)
  \/ TakeLongBreak(HookFiles, SaveFaults)
  \/ PomodoroStart(HookFiles, ScheduleFaults)
  \/ LongBreakStart(HookFiles, ScheduleFaults)
  \/ ProgramStart(HookFiles, SaveFaults)
  \/ ProgramTakeBreak(HookFiles, SaveFaults)
  \/ Clear(NominalHooks, NoFault)

SpecStartFault == Init /\ [][StartFaultNext]_vars

\* Sessions started without failure and finished with failing file-system
\* calls and failing hooks.
FinishFaultNext ==
  \/ Tick
  \/ Start(NominalHooks, NoFault)
  \/ Finish(HookFiles, FinishFaults)
  \/ PomodoroStop(HookFiles, FinishFaults)
  \/ ProgramFinish(HookFiles, FinishFaults)
  \/ Purge(NoFault)

SpecFinishFault == Init /\ [][FinishFaultNext]_vars

(* ----------------------- Status::save on its own ----------------------- *)

\* The status values a caller can hand to Status::save at instant t: each of
\* the four variants, sessions with and without description and tags, and
\* timers of the default and of a given duration.
Sessions(t) ==
  {Program_start_pom(t, d, description, tags) :
     d \in DurationOpts, description \in {None, Some("write")},
     tags \in {None, Some(<<"a", "b">>)}}

Statuses(t) ==
  {Inactive}
    \cup {Active(p) : p \in Sessions(t)}
    \cup {ShortBreak(x) : x \in Timers(t, short_break_duration)}
    \cup {LongBreak(x) : x \in Timers(t, long_break_duration)}

\* The path holds no file or a file that is not a status document.
SaveInit ==
  /\ state_file \in {None, Some(Garbage)}
  /\ history_file = None
  /\ now = 0
  /\ persisted = Inactive
  /\ last = [op |-> "init", result |-> "Ok", hooks |-> <<>>,
             loaded |-> "NotLoaded", had_state |-> FALSE,
             had_history |-> FALSE, changed |-> FALSE]

\* Status::save(status) over whatever the path holds; persisted keeps the
\* status handed to it, whether or not the call succeeds.
SaveStatus ==
  \E status \in Statuses(now) :
    LET sv == Status_save(status, state_file, "none") IN
    /\ state_file' = sv.sf
    /\ persisted' = status
    /\ last' = [op |-> "Status_save", result |-> sv.result, hooks |-> <<>>,
                loaded |-> "NotLoaded", had_state |-> state_file # None,
                had_history |-> FALSE, changed |-> sv.sf # state_file]
    /\ UNCHANGED <<history_file, now>>

SaveNext ==
  \/ Tick
  \/ SaveStatus
  \/ Clear(NominalHooks, NoFault)
  \/ Purge(NoFault)

SpecSave == SaveInit /\ [][SaveNext]_vars

(* ------------------- History::append on its own ----------------------- *)

\* History::append(session) at the history path; last.appended keeps the
\* sessions appended since the file was last absent.
AppendSession ==
  \E pomodoro \in Sessions(now) :
    LET ap == History_append(pomodoro, history_file, "none")
        before == IF history_file = None THEN <<>> ELSE last.appended
    IN
    /\ Len(History_entries(ap.hf)) <= MaxHistory
    /\ history_file' = ap.hf
    /\ last' = [op |-> "History_append", result |-> ap.result,
                hooks |-> <<>>, loaded |-> "NotLoaded",
                had_state |-> state_file # None,
                had_history |-> history_file # None,
                changed |-> ap.hf # history_file,
                appended |-> Append(before, pomodoro)]
    /\ UNCHANGED <<state_file, persisted, now>>

HistoryNext ==
  \/ Tick
  \/ AppendSession
  \/ Purge(NoFault)

SpecHistory == Init /\ [][HistoryNext]_vars

(* ----------------------- Timer on its own ------------------------------ *)

\* Display for Timer: the start, a slash, the duration as TimeDelta prints it.
Timer_to_string(t) ==
  to_rfc3339(t.started_at) \o <<"/">> \o TimeDelta_to_string(t.duration)

\* FromStr for Timer: the text is split at its first slash; the first part
\* is parsed as an instant and the second by from_iso8601, which panics on a
\* text its regex rejects.
Timer_from_str(s) ==
  LET slash == CHOOSE i \in 1..Len(s) :
                 s[i] = "/" /\ \A j \in 1..(i - 1) : s[j] # "/"
      first == SubSeq(s, 1, slash - 1)
      second == SubSeq(s, slash + 1, Len(s))
  IN IF from_iso8601(second) = None THEN Panicked
     ELSE Timer_new(DateTime_parse(first), from_iso8601(second)[1])

\* A reading instant is drawn at the start; each step builds a Timer and
\* reads its elapsed and remaining time at that instant.
TimerInit ==
  /\ state_file = None
  /\ history_file = None
  /\ now \in 0..MaxInstant
  /\ persisted = Inactive
  /\ last = [op |-> "init", result |-> "Ok", hooks |-> <<>>,
             loaded |-> "NotLoaded", had_state |-> FALSE,
             had_history |-> FALSE, changed |-> FALSE]

TimerElapsed ==
  \E started_at \in 0..MaxInstant, duration \in 0..MaxDuration :
    LET timer == Timer_new(started_at, duration) IN
    /\ last' = [op |-> "Timer_elapsed", result |-> "Ok", hooks |-> <<>>,
                loaded |-> "NotLoaded", had_state |-> FALSE,
                had_history |-> FALSE, changed |-> FALSE,
                timer |-> timer, at |-> now,
                elapsed |-> elapsed(timer, now),
                remaining |-> remaining(timer, now),
                ends_at |-> ends_at(timer),
                done |-> done(timer, now)]
    /\ UNCHANGED <<state_file, history_file, now, persisted>>

\* A Timer is built, written as text and the text parsed back.
TimerText ==
  \E started_at \in 0..MaxInstant, duration \in 0..MaxDuration :
    LET timer == Timer_new(started_at, duration) IN
    /\ last' = [op |-> "Timer_to_string", result |-> "Ok", hooks |-> <<>>,
                loaded |-> "NotLoaded", had_state |-> FALSE,
                had_history |-> FALSE, changed |-> FALSE,
                timer |-> timer,
                text |-> Timer_to_string(timer),
                parsed |-> Timer_from_str(Timer_to_string(timer))]
    /\ UNCHANGED <<state_file, history_file, now, persisted>>

\* Pomodoro::done of the command-line program: the Pomodoro is done from the
\* instant started_at + duration on.
Pomodoro_done(p, at) == at >= p.timer.started_at + p.timer.duration

\* The status line that print_status writes for an Active Pomodoro.
print_status_line(p, at) == IF Pomodoro_done(p, at) THEN "Done" ELSE "Active"

\* The status display of a Pomodoro read at the instant drawn at the start,
\* next to what Timer::done says of the Pomodoro's timer at that instant.
PrintStatus ==
  \E started_at \in 0..MaxInstant, duration \in 0..MaxDuration :
    LET pom == Pomodoro_new(started_at, duration) IN
    /\ last' = [op |-> "print_status", result |-> "Ok", hooks |-> <<>>,
                loaded |-> "NotLoaded", had_state |-> FALSE,
                had_history |-> FALSE, changed |-> FALSE,
                pom |-> pom, at |-> now,
                line |-> print_status_line(pom, now),
                done |-> done(pom.timer, now)]
    /\ UNCHANGED <<state_file, history_file, now, persisted>>

TimerNext ==
  \/ TimerElapsed
  \/ TimerText
  \/ PrintStatus

SpecTimer == TimerInit /\ [][TimerNext]_vars

(* -------------------- formatting a TimeDelta --------------------------- *)

\* format!("{:02}", n): at least two digits, zero-padded.
Pad2(n) == IF n < 10 THEN <<"0">> \o Decimal(n) ELSE Decimal(n)

\* TimeDelta's whole hours, minutes and seconds of d seconds, d >= 0.
num_hours(d) == d \div 3600

num_minutes(d) == d \div 60

num_seconds(d) == d

to_kitchen(d) ==
  LET hours == num_hours(d)
      minutes == num_minutes(d) - (hours * 60)
      seconds == num_seconds(d) - (minutes * 60)
  IN IF hours > 0
     THEN Pad2(hours) \o <<":">> \o Pad2(minutes) \o <<":">> \o Pad2(seconds)
     ELSE Pad2(minutes) \o <<":">> \o Pad2(seconds)

to_human(d) ==
  IF d = 0 THEN <<"0", "s">>
  ELSE
    LET hours == num_hours(d)
        minutes == num_minutes(d) - (hours * 60)
        seconds == num_seconds(d) - (minutes * 60)
    IN (IF hours > 0 THEN Decimal(hours) \o <<"h">> ELSE <<>>)
         \o (IF minutes > 0 THEN Decimal(minutes) \o <<"m">> ELSE <<>>)
         \o (IF seconds > 0 THEN Decimal(seconds) \o <<"s">> ELSE <<>>)

\* A duration is drawn at the start; each step formats it one way.
FormatInit ==
  /\ state_file = None
  /\ history_file = None
  /\ now = 0
  /\ persisted = Inactive
  /\ \E d \in 0..MaxSeconds : last = [op |-> "TimeDelta", delta |-> d]

ToKitchen ==
  /\ last.op = "TimeDelta"
  /\ last' = [op |-> "to_kitchen", delta |-> last.delta,
              text |-> to_kitchen(last.delta)]
  /\ UNCHANGED <<state_file, history_file, now, persisted>>

ToHuman ==
  /\ last.op = "TimeDelta"
  /\ last' = [op |-> "to_human", delta |-> last.delta,
              text |-> to_human(last.delta)]
  /\ UNCHANGED <<state_file, history_file, now, persisted>>

\* time/duration.rs: to_kitchen of a std Duration of d whole seconds.
duration_to_kitchen(d) ==
  LET hours == d \div 3600
      minutes == (d \div 60) - (hours * 60)
      seconds == d % 60
  IN IF hours > 0
     THEN Pad2(hours) \o <<":">> \o Pad2(minutes) \o <<":">> \o Pad2(seconds)
     ELSE Pad2(minutes) \o <<":">> \o Pad2(seconds)

DurationToKitchen ==
  /\ last.op = "TimeDelta"
  /\ last' = [op |-> "duration_to_kitchen", delta |-> last.delta,
              text |-> duration_to_kitchen(last.delta)]
  /\ UNCHANGED <<state_file, history_file, now, persisted>>

FormatNext ==
  \/ ToKitchen
  \/ ToHuman
  \/ DurationToKitchen

SpecFormat == FormatInit /\ [][FormatNext]_vars

(* ------------------------ Pomodoro::format ----------------------------- *)

\* str::replace: every non-overlapping occurrence of the two-character
\* pattern, found left to right, is replaced.
RECURSIVE replace(_, _, _)
replace(text, from, to) ==
  IF Len(text) < 2 THEN text
  ELSE IF text[1] = from[1] /\ text[2] = from[2]
  THEN to \o replace(SubSeq(text, 3, Len(text)), from, to)
  ELSE <<text[1]>> \o replace(Tail(text), from, to)

\* [String]::join(",").
RECURSIVE join(_)
join(tags) ==
  IF tags = <<>> THEN <<>>
  ELSE IF Len(tags) = 1 THEN tags[1]
  ELSE tags[1] \o <<",">> \o join(Tail(tags))

\* What each token stands for.
format_values(p, at) ==
  [d |-> unwrap_or(p.description, <<>>),
   t |-> join(unwrap_or(p.tags, <<>>)),
   r |-> to_kitchen(remaining(p.timer, at)),
   R |-> Decimal(num_seconds(remaining(p.timer, at))),
   s |-> to_rfc3339(p.timer.started_at),
   S |-> Decimal(p.timer.started_at),
   e |-> to_rfc3339(ends_at(p.timer)),
   E |-> Decimal(ends_at(p.timer))]

Pomodoro_format(p, f, at) ==
  LET v == format_values(p, at) IN
  replace(replace(replace(replace(replace(replace(replace(replace(f,
    <<"%", "d">>, v.d), <<"%", "t">>, v.t), <<"%", "r">>, v.r),
    <<"%", "R">>, v.R), <<"%", "s">>, v.s), <<"%", "S">>, v.S),
    <<"%", "e">>, v.e), <<"%", "E">>, v.E)

\* The characters a template is made of: the token characters and one other.
TemplateChars == {"%", "d", "t", "r", "R", "s", "S", "e", "E", "x"}

Templates == UNION {[1..n -> TemplateChars] : n \in 0..MaxTemplate}

\* Sessions with and without description and tags, with plain text and with
\* text that contains a token.
FormatSessions ==
  {[timer |-> Timer_new(0, pomodoro_duration), description |-> description,
    tags |-> tags, finished_at |-> None] :
     description \in {None, Some(<<"h", "i">>), Some(<<"%", "r">>)},
     tags \in {None, Some(<<(<<"a">>), (<<"b">>)>>), Some(<<(<<"%", "E">>)>>)}}

TemplateInit ==
  /\ state_file = None
  /\ history_file = None
  /\ now = 0
  /\ persisted = Inactive
  /\ \E f \in Templates, p \in FormatSessions :
       last = [op |-> "template", template |-> f, pom |-> p]

Format ==
  /\ last.op = "template"
  /\ last' = [op |-> "Pomodoro_format", template |-> last.template,
              pom |-> last.pom, at |-> now,
              text |-> Pomodoro_format(last.pom, last.template, now)]
  /\ UNCHANGED <<state_file, history_file, now, persisted>>

TemplateNext == Format

SpecTemplate == TemplateInit /\ [][TemplateNext]_vars

(* -------------------- concurrent start invocations --------------------- *)

\* Two invocations of start run at once. Each one is three steps, as in
\* lib.rs:138-154: Status::load, then the match on the loaded status with
\* the save, then the hook and the return. Nothing is held between steps.
Procs == {1, 2}

\* The status the match of start examines: the one its own load returned.
guarded_status_locked(loaded, sf) == Status_load(sf, "none")

guarded_status(loaded, sf) == loaded

RaceInit ==
  /\ state_file = None
  /\ history_file = None
  /\ now = 0
  /\ persisted = Inactive
  /\ last = [op |-> "start",
             pc |-> [p \in Procs |-> "idle"],
             status |-> [p \in Procs |-> Inactive],
             pomodoro |-> [p \in Procs |-> Pomodoro_new(0, 0)],
             result |-> [p \in Procs |-> "none"]]

RaceLoad(p) ==
  /\ last.pc[p] = "idle"
  /\ \E pomodoro \in Pomodoros(now) :
       last' = [last EXCEPT !.pc[p] = "loaded",
                            !.status[p] = Status_load(state_file, "none"),
                            !.pomodoro[p] = pomodoro,
                            !.result[p] = "none"]
  /\ UNCHANGED <<state_file, history_file, now, persisted>>

RaceSave(p) ==
  /\ last.pc[p] = "loaded"
  /\ LET status == guarded_status(last.status[p], state_file) IN
     IF status = Inactive
     THEN LET next_status == Active(last.pomodoro[p])
              sv == Status_save(next_status, state_file, "none")
          IN /\ state_file' = sv.sf
             /\ persisted' = next_status
             /\ last' = [last EXCEPT !.pc[p] = "saved"]
     ELSE /\ last' = [last EXCEPT !.pc[p] = "done",
                                  !.result[p] =
                                     IF status.tag = "Err" THEN status.msg
                                     ELSE IF status.tag = "Active"
                                     THEN "There is already an unfinished Pomodoro"
                                     ELSE "You're currently taking a break!"]
          /\ UNCHANGED <<state_file, persisted>>
  /\ UNCHANGED <<history_file, now>>

RaceHook(p) ==
  /\ last.pc[p] = "saved"
  /\ \E hk \in NominalHooks :
       last' = [last EXCEPT !.pc[p] = "done",
                            !.result[p] = run_start_hook(hk).result]
  /\ UNCHANGED <<state_file, history_file, now, persisted>>

\* The process exits; the same terminal may invoke start again.
RaceExit(p) ==
  /\ last.pc[p] = "done"
  /\ last' = [last EXCEPT !.pc[p] = "idle"]
  /\ UNCHANGED <<state_file, history_file, now, persisted>>

RaceNext ==
  \/ Tick
  \/ \E p \in Procs : RaceLoad(p)
  \/ \E p \in Procs : RaceSave(p)
  \/ \E p \in Procs : RaceHook(p)
  \/ \E p \in Procs : RaceExit(p)

SpecRace == RaceInit /\ [][RaceNext]_vars

(* ------------------------- reading the state --------------------------- *)

\* The status a command of the library finds, and the one main.rs finds.
Loaded == Status_load(state_file, "none")

ProgramLoaded == Program_load_state(state_file, "none")

Breaks == {"ShortBreak", "LongBreak"}

Entries == History_entries(history_file)

Untouched(r) == r.sf = state_file /\ r.hf = history_file

StartOps == {"start", "pomodoro_start", "Program_start"}

BreakOps ==
  {"take_short_break", "take_long_break", "long_break_start",
   "Program_take_break"}

FinishOps == {"finish", "Program_finish"}

ClearOps == {"clear", "Program_clear"}

PurgeOps == {"purge", "Program_purge"}

NoActivePomodoro == "No active Pomodoro. Start one with \"tomate start\""

StartRejection(tag) ==
  IF tag = "Active" THEN "There is already an unfinished Pomodoro"
  ELSE "You're currently taking a break!"

(* ------------------------------- claims -------------------------------- *)

\* C1: after any sequence of commands the state file reads as exactly one of
\* Inactive, Active, ShortBreak, LongBreak, and that status is the value
\* handed to the last save or delete that succeeded.
C1_SingleSlot ==
  /\ persisted.tag \in Variants
  /\ persisted.tag = "Inactive" => state_file = None
  /\ persisted.tag # "Inactive" => state_file = Some(to_toml(persisted))
  /\ persisted.tag = "Active" => DOMAIN persisted = {"tag", "pom"}
  /\ persisted.tag \in Breaks => DOMAIN persisted = {"tag", "timer"}
  /\ Loaded.tag \in Variants => Loaded = persisted

C1_Witness ==
  /\ last.op = "pomodoro_start" /\ last.result = "Ok"
  /\ Loaded.tag = "Active"
  /\ Len(Entries) = 1

\* C2: from Inactive, start succeeds and the state file then loads as Active
\* holding exactly the supplied Pomodoro (timer, description, tags).
C2_StartFromInactive ==
  /\ Loaded.tag = "Inactive" =>
       /\ \A pom \in Pomodoros(now), hk \in NominalHooks :
            LET r == start(state_file, history_file, pom, hk, "none")
                q == Program_start(state_file, history_file, pom, hk, "none")
            IN /\ r.result = "Ok" /\ Status_load(r.sf, "none") = Active(pom)
               /\ q.result = "Ok"
               /\ Program_load_state(q.sf, "none") = Active(pom)
       /\ \A a \in PomodoroStartArgs, hk \in NominalHooks :
            LET r == pomodoro_start(state_file, history_file, now, a.duration,
                                    a.description, a.tags, hk, "none")
            IN /\ r.result = "Ok"
               /\ Status_load(r.sf, "none")
                    = Active(pomodoro_start_pom(now, a.duration, a.description,
                                                a.tags))
  /\ (last.op \in StartOps /\ last.loaded = "Inactive") =>
       /\ last.result = "Ok"
       /\ Loaded.tag = "Active"
       /\ Loaded = persisted

C2_Witness ==
  /\ last.op = "start" /\ last.loaded = "Inactive" /\ last.result = "Ok"
  /\ Loaded.tag = "Active"
  /\ Loaded.pom.description = Some("write")
  /\ Loaded.pom.tags = Some(<<"a", "b">>)

\* C3: start on Active, ShortBreak or LongBreak is rejected, with "already
\* unfinished" when Active and "taking a break" when on a break, and leaves
\* the state file and the history file as they were.
C3_StartRejected ==
  /\ Loaded.tag \in {"Active"} \cup Breaks =>
       /\ \A pom \in Pomodoros(now), hk \in NominalHooks :
            LET r == start(state_file, history_file, pom, hk, "none") IN
            r.result = StartRejection(Loaded.tag) /\ Untouched(r)
       /\ \A a \in PomodoroStartArgs, hk \in NominalHooks :
            LET r == pomodoro_start(state_file, history_file, now, a.duration,
                                    a.description, a.tags, hk, "none")
            IN r.result = StartRejection(Loaded.tag) /\ Untouched(r)
  /\ ProgramLoaded.tag \in {"Active", "ShortBreak"} =>
       \A pom \in Pomodoros(now), hk \in NominalHooks :
         LET r == Program_start(state_file, history_file, pom, hk, "none") IN
         r.result = StartRejection(ProgramLoaded.tag) /\ Untouched(r)
  /\ (last.op \in StartOps /\ last.loaded \in {"Active"} \cup Breaks) =>
       /\ last.result = StartRejection(last.loaded)
       /\ Loaded.tag = last.loaded

C3_Witness ==
  /\ last.op = "start" /\ last.loaded = "LongBreak"
  /\ last.result = "You're currently taking a break!"
  /\ Loaded.tag = "LongBreak"
  /\ Len(Entries) = 1

\* C4: from Inactive, starting a break persists the variant of the requested
\* kind: ShortBreak for a short break, LongBreak for a long break.
C4_BreakKindPersisted ==
  (last.op \in BreakOps /\ last.loaded = "Inactive" /\ last.result = "Ok") =>
    /\ last.op \in {"take_short_break", "Program_take_break"} =>
         Loaded.tag = "ShortBreak"
    /\ last.op \in {"take_long_break", "long_break_start"} =>
         Loaded.tag = "LongBreak"

\* C5: starting a short or long break on Active, ShortBreak or LongBreak is
\* rejected with an error and leaves the state file and the history file as
\* they were.
C5_BreakRejected ==
  /\ Loaded.tag \in {"Active"} \cup Breaks =>
       /\ \A timer \in Timers(now, short_break_duration), hk \in NominalHooks :
            LET r == take_short_break(state_file, history_file, timer, hk,
                                      "none")
            IN r.result # "Ok" /\ Untouched(r)
       /\ \A timer \in Timers(now, long_break_duration), hk \in NominalHooks :
            LET r == take_long_break(state_file, history_file, timer, hk,
                                     "none")
            IN r.result # "Ok" /\ Untouched(r)
       /\ \A d \in DurationOpts, hk \in NominalHooks :
            LET r == long_break_start(state_file, history_file, now, d, hk,
                                      "none")
            IN r.result # "Ok" /\ Untouched(r)
  /\ ProgramLoaded.tag \in {"Active", "ShortBreak"} =>
       \A timer \in Timers(now, short_break_duration), hk \in NominalHooks :
         LET r == Program_take_break(state_file, history_file, timer, hk,
                                     "none")
         IN r.result # "Ok" /\ Untouched(r)
  /\ (last.op \in BreakOps /\ last.loaded \in {"Active"} \cup Breaks) =>
       /\ last.result # "Ok"
       /\ Loaded.tag = last.loaded

C5_Witness ==
  /\ last.op = "take_short_break" /\ last.loaded = "Active"
  /\ last.result = "Finish your current timer before taking a break"
  /\ Loaded.tag = "Active"
  /\ Len(Entries) = 1

\* C6: finish on Active(s) leaves the status Inactive (no state file) and
\* the history equal to the previous history followed by one new last
\* entry, the session s (stamped with the finish instant by pomodoro::stop).
C6_FinishArchives ==
  /\ Loaded.tag = "Active" =>
       /\ \A hk \in NominalHooks :
            LET r == finish(state_file, history_file, hk, "none")
                q == Program_finish(state_file, history_file, hk, "none")
            IN /\ r.result = "Ok" /\ r.sf = None
               /\ History_load(r.hf).pomodoros
                    = History_load(history_file).pomodoros \o <<Loaded.pom>>
               /\ q.result = "Ok" /\ q.sf = None
               /\ History_load(q.hf).pomodoros
                    = History_load(history_file).pomodoros \o <<Loaded.pom>>
       /\ \A hk \in NominalHooks, hk_stop \in NominalHooks :
            LET r == pomodoro_stop(state_file, history_file, now, hk, hk_stop,
                                   "none")
            IN /\ r.result = "Ok" /\ r.sf = None
               /\ History_load(r.hf).pomodoros
                    = History_load(history_file).pomodoros
                        \o <<Pomodoro_finish(Loaded.pom, now)>>
  /\ (last.op \in FinishOps \cup {"pomodoro_stop"} /\ last.loaded = "Active") =>
       /\ last.result = "Ok"
       /\ Loaded = Inactive /\ state_file = None
       /\ Len(Entries) >= 1

C6_Witness ==
  /\ last.op = "finish" /\ last.loaded = "Active" /\ last.result = "Ok"
  /\ state_file = None
  /\ Len(Entries) = 2
  /\ Entries[1] # Entries[2]

\* C7: finish on ShortBreak or LongBreak leaves the status Inactive (state
\* file deleted) and appends nothing to the history.
C7_FinishBreak ==
  /\ Loaded.tag \in Breaks =>
       \A hk \in NominalHooks :
         LET r == finish(state_file, history_file, hk, "none") IN
         r.result = "Ok" /\ r.sf = None /\ r.hf = history_file
  /\ ProgramLoaded.tag = "ShortBreak" =>
       \A hk \in NominalHooks :
         LET r == Program_finish(state_file, history_file, hk, "none") IN
         r.result = "Ok" /\ r.sf = None /\ r.hf = history_file
  /\ (last.op \in FinishOps /\ last.loaded \in Breaks) =>
       /\ last.result = "Ok"
       /\ Loaded = Inactive /\ state_file = None
       /\ last.had_history = (history_file # None)

C7_Witness ==
  /\ last.op = "finish" /\ last.loaded = "LongBreak" /\ last.result = "Ok"
  /\ state_file = None
  /\ Len(Entries) = 1

\* C8: finish on Inactive fails with the "No active Pomodoro" error and
\* leaves the state file absent and the history as it was.
C8_FinishInactive ==
  /\ Loaded.tag = "Inactive" =>
       \A hk \in NominalHooks :
         LET r == finish(state_file, history_file, hk, "none")
             q == Program_finish(state_file, history_file, hk, "none")
         IN /\ r.result = NoActivePomodoro /\ r.sf = None
            /\ r.hf = history_file
            /\ q.result = NoActivePomodoro /\ q.sf = None
            /\ q.hf = history_file
  /\ (last.op \in FinishOps /\ last.loaded = "Inactive") =>
       /\ last.result = NoActivePomodoro
       /\ state_file = None
       /\ ~last.had_state

C8_Witness ==
  /\ last.op = "finish" /\ last.loaded = "Inactive"
  /\ last.result = NoActivePomodoro
  /\ state_file = None
  /\ Len(Entries) = 1

\* The stop hook appears in the hook log of an outcome.
StopHookRuns(r) == \E i \in 1..Len(r.hooks) : r.hooks[i].name = "stop"

\* One clear followed by another, as outcomes r and again.
ClearsOnce(r, again, hk) ==
  /\ r.result = "Ok" /\ r.sf = None /\ r.hf = history_file
  /\ StopHookRuns(r) <=> state_file # None
  /\ (r.hooks # <<>> /\ r.hooks[1].spawned) <=> (state_file # None /\ hk = "ok")
  /\ again.result = "Ok" /\ again.sf = None /\ again.hf = history_file
  /\ again.hooks = <<>>

\* C9: clear from any status succeeds, leaves the status Inactive and the
\* history as it was, and runs the stop hook exactly when a state file
\* existed; a second clear in a row succeeds, changes nothing and runs no
\* hook.
C9_Clear ==
  /\ \A hk \in NominalHooks :
       LET r == clear(state_file, history_file, hk, "none") IN
       ClearsOnce(r, clear(r.sf, r.hf, hk, "none"), hk)
  /\ ProgramLoaded.tag # "Err" =>
       \A hk \in NominalHooks :
         LET r == Program_clear(state_file, history_file, hk, "none") IN
         ClearsOnce(r, Program_clear(r.sf, r.hf, hk, "none"), hk)
  /\ (last.op \in ClearOps /\ last.loaded # "Err") =>
       /\ last.result = "Ok"
       /\ Loaded = Inactive /\ state_file = None
       /\ StopHookRuns(last) <=> last.had_state
       /\ last.had_history = (history_file # None)

C9_Witness ==
  /\ last.op = "clear" /\ last.result = "Ok"
  /\ ~last.had_state /\ last.hooks = <<>>
  /\ state_file = None
  /\ Len(Entries) = 1

\* C10: purge, from any status and any history, removes the state file and
\* the history file, so that the status loads as Inactive and the history as
\* the empty list; it succeeds also when either file is already absent.
C10_Purge ==
  /\ LET r == purge(state_file, history_file, "none")
         q == Program_purge(state_file, history_file, "none")
     IN /\ r.result = "Ok" /\ r.sf = None /\ r.hf = None
        /\ Status_load(r.sf, "none") = Inactive
        /\ History_load(r.hf).pomodoros = <<>>
        /\ q.result = "Ok" /\ q.sf = None /\ q.hf = None
        /\ Program_load_state(q.sf, "none") = Inactive
  /\ last.op \in PurgeOps =>
       /\ last.result = "Ok"
       /\ state_file = None /\ history_file = None
       /\ Loaded = Inactive /\ History_load(history_file).pomodoros = <<>>

C10_Witness ==
  /\ last.op = "purge" /\ last.result = "Ok"
  /\ last.had_state /\ last.had_history
  /\ state_file = None /\ history_file = None

C10_WitnessAbsent ==
  /\ last.op = "purge" /\ last.result = "Ok"
  /\ ~last.had_state /\ last.had_history

\* The commands that end a session or a break.
EndOps ==
  FinishOps \cup ClearOps \cup PurgeOps \cup {"pomodoro_stop", "long_break_stop"}

\* C11: the passing of time alone never changes the status: a step that
\* advances the clock leaves the state file and what Status::load returns as
\* they were, and an Active session or a break, overrun or not, stops being
\* loaded as such only by a finish, stop, clear or purge that succeeds and
\* leaves the status Inactive.
C11_TimeNeverExpires ==
  [][/\ now' # now => (state_file' = state_file /\ Loaded' = Loaded)
     /\ (Loaded.tag \in {"Active"} \cup Breaks /\ Loaded' # Loaded) =>
          /\ last'.op \in EndOps
          /\ last'.result = "Ok"
          /\ Loaded' = Inactive]_vars

C11_Witness ==
  /\ Loaded.tag = "Active"
  /\ done(Loaded.pom.timer, now)
  /\ remaining(Loaded.pom.timer, now) = 0
  /\ last.op = "take_short_break" /\ last.loaded = "Active"

\* The commands that make a transition of the status.
TransitionOps ==
  StartOps \cup BreakOps \cup FinishOps \cup ClearOps
    \cup {"pomodoro_stop", "long_break_stop"}

\* C12: no transition partially applies: a start, break start, finish, stop
\* or clear that returns an error leaves the state file and the history file
\* as they were before the command.
C12_NoPartialApply ==
  (last.op \in TransitionOps /\ last.result # "Ok") => ~last.changed

\* C13: a hook that fails never makes its command return an error and never
\* prevents the transition: no command ends with the hook's failure as its
\* result, a start or break start that dispatched its hook has written the
\* state file, and a finish or clear that dispatched the stop hook has
\* deleted it.
C13_HookFailureSwallowed ==
  /\ last.result # "Failed to execute hook"
  /\ (last.op \in StartOps \cup BreakOps /\ last.hooks # <<>>) =>
       state_file # None
  /\ (last.op \in FinishOps \cup ClearOps /\ last.hooks # <<>>) =>
       state_file = None

\* C14: Status::load (and Program::load_state) returns Inactive, and no
\* error, exactly when the state file is absent; when the file is present it
\* returns the one variant stored in it, which is the value last saved.
C14_LoadAbsentIsInactive ==
  /\ (state_file = None) <=> (Loaded = Inactive)
  /\ (state_file = None) <=> (ProgramLoaded = Inactive)
  /\ state_file # None =>
       /\ Loaded.tag = state_file[1]["status"]
       /\ Loaded = persisted
       /\ persisted.tag # "LongBreak" => ProgramLoaded = persisted

\* C15: round trip: for every status value of the four variants and every
\* prior content of the path, Status::save(status) followed by Status::load
\* returns a status equal to the saved one.
C15_SaveLoadRoundTrip ==
  last.op = "Status_save" => Loaded = persisted

\* C16 as claimed: Status::save(Inactive) succeeds and leaves the state file
\* absent whether or not the file existed before.
C16_SaveInactiveIdempotent ==
  (last.op = "Status_save" /\ persisted = Inactive) =>
    (last.result = "Ok" /\ state_file = None)

\* C16 as amended: Status::save(Inactive) leaves the state file absent, and
\* succeeds exactly when the file existed; clear and purge delete the state
\* file only when it exists, so they succeed on an absent state file.
C16_SaveInactiveChecked ==
  /\ (last.op = "Status_save" /\ persisted = Inactive) =>
       /\ state_file = None
       /\ last.result = "Ok" <=> last.had_state
  /\ last.op \in {"clear", "purge"} =>
       (last.result = "Ok" /\ state_file = None)
  /\ state_file = None =>
       /\ \A hk \in NominalHooks :
            /\ clear(state_file, history_file, hk, "none").result = "Ok"
            /\ Program_clear(state_file, history_file, hk, "none").result = "Ok"
       /\ purge(state_file, history_file, "none").result = "Ok"
       /\ Program_purge(state_file, history_file, "none").result = "Ok"

C16_Witness ==
  /\ last.op = "Status_save" /\ persisted = Inactive
  /\ ~last.had_state /\ last.result = "io error"
  /\ state_file = None

\* C17: starting from an absent history file, History::load returns the
\* sessions appended with History::append, all of them and in append order;
\* with no history file it returns the empty list.
C17_HistoryRoundTrip ==
  /\ history_file = None => History_load(history_file).pomodoros = <<>>
  /\ history_file # None =>
       /\ last.op = "History_append"
       /\ History_load(history_file) = [pomodoros |-> last.appended]

IsPrefix(s, t) == Len(s) <= Len(t) /\ \A i \in 1..Len(s) : s[i] = t[i]

ArchiveOps == FinishOps \cup {"pomodoro_stop"}

\* C18: a command other than purge leaves the earlier history as a prefix of
\* the later one; the history changes only by a finish of an Active session
\* that succeeds, and every such finish adds exactly one entry.
C18_AppendOnly ==
  [][(now' = now /\ last'.op \notin PurgeOps) =>
       /\ IsPrefix(Entries, Entries')
       /\ Entries' # Entries =>
            /\ last'.op \in ArchiveOps
            /\ last'.loaded = "Active"
            /\ last'.result = "Ok"
       /\ (last'.op \in ArchiveOps /\ last'.loaded = "Active"
             /\ last'.result = "Ok") =>
            Len(Entries') = Len(Entries) + 1]_vars

TimedVariants == {"Active", "ShortBreak", "LongBreak"}

\* C19: the state file exists exactly when the status last stored is not
\* Inactive; a state file that exists holds the Active, ShortBreak or
\* LongBreak value last stored, and Status::save writes no document for
\* Inactive.
C19_FileIffNotInactive ==
  /\ state_file = None <=> persisted = Inactive
  /\ state_file = None <=> Loaded = Inactive
  /\ state_file # None =>
       /\ state_file[1]["status"] \in TimedVariants
       /\ state_file[1]["status"] = persisted.tag
  /\ \A status \in Statuses(now) :
       LET sv == Status_save(status, state_file, "none") IN
       /\ sv.sf = None <=> status = Inactive
       /\ sv.sf # None => sv.sf[1]["status"] \in TimedVariants

C19_Witness ==
  /\ last.op = "clear" /\ last.had_state /\ last.result = "Ok"
  /\ state_file = None /\ persisted = Inactive /\ Loaded = Inactive

\* C20: for a timer of duration >= 0, elapsed(now) is now - started_at kept
\* within [0, duration]: 0 up to the start, duration from the end on, where
\* remaining(now) is 0.
C20_ElapsedClamped ==
  last.op = "Timer_elapsed" =>
    LET t == last.timer
        at == last.at
    IN /\ 0 <= last.elapsed /\ last.elapsed <= t.duration
       /\ at <= t.started_at => last.elapsed = 0
       /\ at >= t.started_at + t.duration =>
            (last.elapsed = t.duration /\ last.remaining = 0)
       /\ (t.started_at <= at /\ at <= t.started_at + t.duration) =>
            last.elapsed = at - t.started_at
       /\ last.elapsed + last.remaining = t.duration

C20_Witness ==
  /\ last.op = "Timer_elapsed"
  /\ last.timer.duration > 0
  /\ last.at > last.timer.started_at + last.timer.duration
  /\ last.elapsed = last.timer.duration /\ last.remaining = 0

C20_WitnessBeforeStart ==
  /\ last.op = "Timer_elapsed"
  /\ last.timer.duration > 0
  /\ last.at < last.timer.started_at
  /\ last.elapsed = 0 /\ last.remaining = last.timer.duration

\* C21: for a timer of duration >= 0 and any instant, elapsed and remaining
\* add up to the duration exactly, and remaining is never negative.
C21_ElapsedPlusRemaining ==
  last.op = "Timer_elapsed" =>
    /\ last.elapsed + last.remaining = last.timer.duration
    /\ last.remaining >= 0
    /\ last.remaining <= last.timer.duration

C21_Witness ==
  /\ last.op = "Timer_elapsed"
  /\ last.at > last.timer.started_at + last.timer.duration + 1
  /\ last.timer.duration > 1
  /\ last.remaining = 0

\* C22: done(now) is true exactly when now is later than ends_at, which is
\* started_at + duration; it is false at ends_at itself and true one unit
\* later; whenever it is true, remaining(now) is 0.
C22_DoneStrict ==
  /\ last.op = "Timer_elapsed" =>
       /\ last.ends_at = last.timer.started_at + last.timer.duration
       /\ last.done <=> last.at > last.ends_at
       /\ last.at = last.ends_at => ~last.done
       /\ last.at = last.ends_at + 1 => last.done
       /\ last.done => last.remaining = 0
  /\ \A started_at \in 0..MaxInstant, duration \in 0..MaxDuration :
       LET t == Timer_new(started_at, duration) IN
       /\ ~done(t, ends_at(t))
       /\ done(t, ends_at(t) + 1)

C22_Witness ==
  /\ last.op = "Timer_elapsed"
  /\ last.timer.duration > 0
  /\ last.at = last.ends_at
  /\ ~last.done /\ last.remaining = 0

C22_WitnessDone ==
  /\ last.op = "Timer_elapsed"
  /\ last.timer.duration > 0
  /\ last.at = last.ends_at + 1
  /\ last.done

\* C23: the kitchen format of d whole seconds is MM:SS under one hour and
\* HH:MM:SS from one hour on, with HH = d div 3600, MM = (d div 60) mod 60
\* and SS = d mod 60, each padded to two digits.
C23_KitchenFormat ==
  last.op = "to_kitchen" =>
    LET d == last.delta
        HH == Pad2(d \div 3600)
        MM == Pad2((d \div 60) % 60)
        SS == Pad2(d % 60)
    IN last.text = IF d < 3600 THEN MM \o <<":">> \o SS
                   ELSE HH \o <<":">> \o MM \o <<":">> \o SS

\* C24: the human format of d whole seconds is "{h}h" "{m}m" "{s}s" with
\* h = d div 3600, m = (d div 60) mod 60 and s = d mod 60, a component left
\* out when it is zero, and "0s" for d = 0.
C24_HumanFormat ==
  last.op = "to_human" =>
    LET d == last.delta
        h == d \div 3600
        m == (d \div 60) % 60
        sec == d % 60
    IN last.text =
         IF d = 0 THEN <<"0", "s">>
         ELSE (IF h > 0 THEN Decimal(h) \o <<"h">> ELSE <<>>)
                \o (IF m > 0 THEN Decimal(m) \o <<"m">> ELSE <<>>)
                \o (IF sec > 0 THEN Decimal(sec) \o <<"s">> ELSE <<>>)

\* C25: Pomodoro::format returns the template with each token replaced by
\* its value and every other character unchanged, whatever text the values
\* hold; "%d" alone gives the description and "%t" alone the tags joined
\* by commas.
C25_FormatSubstitutes ==
  last.op = "Pomodoro_format" =>
    LET v == format_values(last.pom, last.at)
        RECURSIVE Substituted(_)
        Substituted(f) ==
          IF Len(f) < 2 THEN f
          ELSE IF f[1] = "%" /\ f[2] \in DOMAIN v
          THEN v[f[2]] \o Substituted(SubSeq(f, 3, Len(f)))
          ELSE <<f[1]>> \o Substituted(Tail(f))
    IN /\ last.text = Substituted(last.template)
       /\ last.template = <<"%", "d">> => last.text = v.d
       /\ last.template = <<"%", "t">> => last.text = v.t

\* C26: a Timer is written as "<RFC 3339 start>/PT<seconds>S", and parsing
\* that text gives a timer with the same start and the same duration, for
\* every start and every duration, zero included.
C26_TimerTextRoundTrip ==
  last.op = "Timer_to_string" =>
    /\ last.text = to_rfc3339(last.timer.started_at)
                     \o <<"/", "P", "T">>
                     \o Decimal(last.timer.duration) \o <<"S">>
    /\ last.parsed = last.timer

\* The sessions of the history, as History::load returns them.
Archived == History_load(history_file).pomodoros

C28_FinishedOnce ==
  [][/\ Loaded.tag = "Active" => Loaded.pom.finished_at = None
     /\ (last'.op = "pomodoro_stop" /\ last'.loaded = "Active"
          /\ last'.result = "Ok" /\ now' = now) =>
          history_file' = Some(Append(Entries,
                                pom_to_toml(Pomodoro_finish(Loaded.pom, now))))
     /\ \A i \in 1..Len(Entries) :
          i <= Len(Entries') =>
            GetOpt(Entries'[i], "finished_at") = GetOpt(Entries[i], "finished_at")]_vars

C28_Witness ==
  /\ last.op = "pomodoro_stop" /\ last.loaded = "Active" /\ last.result = "Ok"
  /\ Len(Archived) = 2
  /\ Archived[1].finished_at = Some(0)
  /\ Archived[2].finished_at = Some(now) /\ now > 0

\* C29: load, guard and save of start are separate steps without a lock: an
\* invocation that loaded Inactive saves its session and reports success
\* whatever was written meanwhile, so two concurrent invocations from
\* Inactive both succeed and the file keeps only the later save.
C29_StartRace ==
  /\ \A p \in Procs :
       /\ last.pc[p] = "done" =>
            (last.result[p] = "Ok" <=> last.status[p] = Inactive)
       /\ last.pc[p] = "saved" => last.status[p] = Inactive
  /\ state_file # None => state_file = Some(to_toml(persisted))
  /\ \A p \in Procs, q \in Procs :
       (p # q /\ last.pc[p] = "done" /\ last.pc[q] = "done"
          /\ last.status[p] = Inactive /\ last.status[q] = Inactive) =>
         /\ last.result[p] = "Ok" /\ last.result[q] = "Ok"
         /\ persisted \in {Active(last.pomodoro[p]), Active(last.pomodoro[q])}

C29_Witness ==
  /\ last.pc[1] = "done" /\ last.pc[2] = "done"
  /\ last.status[1] = Inactive /\ last.status[2] = Inactive
  /\ last.result[1] = "Ok" /\ last.result[2] = "Ok"
  /\ last.pomodoro[1] # last.pomodoro[2]
  /\ state_file = Some(to_toml(Active(last.pomodoro[2])))
  /\ state_file # Some(to_toml(Active(last.pomodoro[1])))

\* The commands that load the status before anything else.
LoadingOps ==
  StartOps \cup BreakOps \cup FinishOps
    \cup {"pomodoro_stop", "long_break_stop", "Program_clear"}

\* C30: with a state file that cannot be parsed, start, break-start and
\* finish fail and leave the state file and the history as they are; the
\* file goes away only by clear or purge, which delete it without parsing
\* it, and load then returns Inactive.
C30_CorruptIsFatal ==
  [][/\ Loaded.tag = "Err" =>
          /\ \A hk \in NominalHooks, pomodoro \in Pomodoros(now) :
               LET r == start(state_file, history_file, pomodoro, hk, "none")
               IN r.result # "Ok" /\ Untouched(r)
          /\ \A hk \in NominalHooks, timer \in Timers(now, short_break_duration) :
               LET r == take_short_break(state_file, history_file, timer, hk,
                                         "none")
                   q == take_long_break(state_file, history_file, timer, hk,
                                        "none")
               IN /\ r.result # "Ok" /\ Untouched(r)
                  /\ q.result # "Ok" /\ Untouched(q)
          /\ \A hk \in NominalHooks :
               LET r == finish(state_file, history_file, hk, "none")
                   c == clear(state_file, history_file, hk, "none")
               IN /\ r.result # "Ok" /\ Untouched(r)
                  /\ c.result = "Ok" /\ c.sf = None
                  /\ c.hf = history_file
                  /\ Status_load(c.sf, "none") = Inactive
          /\ LET r == purge(state_file, history_file, "none")
             IN r.result = "Ok" /\ r.sf = None /\ r.hf = None
     /\ (Loaded.tag = "Err" /\ now' = now /\ last'.op \in LoadingOps) =>
          /\ last'.loaded = "Err" /\ last'.result # "Ok"
          /\ ~last'.changed
     /\ (Loaded.tag = "Err" /\ state_file' # state_file) =>
          /\ last'.op \in {"clear"} \cup PurgeOps
          /\ last'.result = "Ok"
          /\ state_file' = None /\ Loaded' = Inactive]_vars

C30_Witness ==
  /\ state_file = Some(Garbage) /\ Loaded.tag = "Err"
  /\ last.op = "finish" /\ last.loaded = "Err" /\ last.had_state
  /\ last.result = "Failed to parse state file"
  /\ ~last.changed

\* The status a later load finds after a command with outcome r.
After(r) == Status_load(r.sf, "none")

\* C31: no state is terminal: clear always leads to Inactive, finish does
\* from every status other than Inactive, and from Inactive a command
\* enters Active, one ShortBreak and one LongBreak.
C31_NoTerminalState ==
  /\ \A hk \in NominalHooks :
       /\ After(clear(state_file, history_file, hk, "none")) = Inactive
       /\ Loaded.tag \in TimedVariants =>
            After(finish(state_file, history_file, hk, "none")) = Inactive
       /\ ProgramLoaded.tag \in Variants =>
            After(Program_clear(state_file, history_file, hk, "none")) = Inactive
  /\ Loaded = Inactive =>
       \E hk \in NominalHooks :
         /\ \E pomodoro \in Pomodoros(now) :
              After(start(state_file, history_file, pomodoro, hk, "none")).tag
                = "Active"
         /\ \E timer \in Timers(now, short_break_duration) :
              After(take_short_break(state_file, history_file, timer, hk,
                                     "none")).tag = "ShortBreak"
         /\ \E d \in DurationOpts :
              After(long_break_start(state_file, history_file, now, d, hk,
                                     "none")).tag = "LongBreak"

C31_Witness ==
  /\ last.op = "long_break_start" /\ last.loaded = "Inactive"
  /\ last.result = "Ok"
  /\ Loaded.tag = "LongBreak"
  /\ Len(Entries) = 2
  /\ now > 0

\* The hook each start command looks up.
StartHookOf(op) ==
  IF op \in {"start", "Program_start"} THEN "start"
  ELSE IF op = "pomodoro_start" THEN "PomodoroStart"
  ELSE IF op = "long_break_start" THEN "LongBreakStart"
  ELSE "break"

\* C32: a start or break-start looks up and runs its hook only once the new
\* status is in the state file; a rejected start or break-start runs no
\* hook.
C32_HookAfterPersist ==
  last.op \in StartOps \cup BreakOps =>
    /\ last.hooks # <<>> =>
         /\ last.loaded = "Inactive"
         /\ \A i \in 1..Len(last.hooks) : last.hooks[i].name = StartHookOf(last.op)
         /\ persisted.tag \in TimedVariants
         /\ state_file = Some(to_toml(persisted))
         /\ last.changed
    /\ last.loaded # "Inactive" => (last.hooks = <<>> /\ last.result # "Ok")
    /\ (last.result = "Ok" /\ last.loaded = "Inactive") =>
         /\ Len(last.hooks) = 1
         /\ persisted.tag \in TimedVariants
         /\ state_file = Some(to_toml(persisted))

C32_Witness ==
  /\ last.op = "take_short_break" /\ last.result = "Ok"
  /\ last.hooks = <<[name |-> "break", spawned |-> TRUE]>>
  /\ Loaded.tag = "ShortBreak" /\ ~last.had_state

C32_WitnessRejected ==
  /\ last.op = "start" /\ last.loaded = "Active"
  /\ last.hooks = <<>> /\ last.result # "Ok"

\* C33: finishing an Active session never loses it: whatever step of the
\* finish fails, afterwards the session is still in the state file or it is
\* the last entry of the history.
C33_SessionNeverLost ==
  [][(Loaded.tag = "Active" /\ now' = now /\ last'.op \in ArchiveOps) =>
       \/ state_file' = state_file
       \/ /\ Entries' # <<>>
          /\ Entries'[Len(Entries')]
               \in {pom_to_toml(Loaded.pom),
                    pom_to_toml(Pomodoro_finish(Loaded.pom, now))}]_vars

C33_Witness ==
  /\ last.op = "finish" /\ last.loaded = "Active"
  /\ last.result = "Failed to execute hook"
  /\ state_file = None
  /\ Len(Entries) = 1

\* The last command archived the session of the state file and the state
\* file still holds it.
ArchivedAndKept ==
  /\ last.op \in ArchiveOps /\ last.loaded = "Active"
  /\ last.changed /\ last.had_state
  /\ state_file # None

\* C34: a session is appended to the history at most once, also when finish
\* is invoked again after an invocation that failed.
C34_ArchivedAtMostOnce ==
  [][~(/\ ArchivedAndKept
       /\ now' = now
       /\ state_file' = state_file
       /\ last'.op \in ArchiveOps
       /\ Len(Entries') = Len(Entries) + 1)]_vars

\* C35: the typed stop operations act only on their own variant.  When the
\* status that pomodoro::stop loads is not Active, and when the status that
\* long_break::stop loads is not LongBreak, the operation returns Ok, runs no
\* hook and leaves the state file and the history file as they were.
OtherVariantStop(r) ==
  /\ r.result = "Ok"
  /\ r.hooks = <<>>
  /\ Untouched(r)

C35_TypedStopOwnVariant ==
  /\ (last.op = "pomodoro_stop" /\ last.loaded \in Variants \ {"Active"}) =>
       (last.result = "Ok" /\ last.hooks = <<>> /\ ~last.changed)
  /\ (last.op = "long_break_stop" /\ last.loaded \in Variants \ {"LongBreak"}) =>
       (last.result = "Ok" /\ last.hooks = <<>> /\ ~last.changed)
  /\ \A hk \in HookFiles, hk_stop \in HookFiles :
       /\ Loaded.tag \in Variants \ {"Active"} =>
            OtherVariantStop(pomodoro_stop(state_file, history_file, now,
                                           hk, hk_stop, "none"))
       /\ Loaded.tag \in Variants \ {"LongBreak"} =>
            OtherVariantStop(long_break_stop(state_file, history_file,
                                             hk, hk_stop, "none"))

C35_Witness ==
  /\ last.op = "long_break_stop"
  /\ last.loaded = "ShortBreak"
  /\ last.result = "Ok"
  /\ Loaded.tag = "ShortBreak"
  /\ Entries # <<>>

\* C36: the status display reports "Done" exactly when the reading instant is
\* strictly later than started_at + duration: Pomodoro::done of the
\* command-line program agrees with Timer::done at every instant, the exact
\* end instant included.
C36_DoneAgrees ==
  last.op = "print_status" =>
    /\ (last.line = "Done") = (last.at > ends_at(last.pom.timer))
    /\ (last.line = "Done") = last.done

(* ------------------------ main.rs: duration_parser --------------------- *)

\* The length of the longest prefix of s made of digits.
RECURSIVE DigitRun(_)
DigitRun(s) ==
  IF s # <<>> /\ Head(s) \in Digits THEN 1 + DigitRun(Tail(s)) ELSE 0

\* One optional group of the regex, (?:([0-9])h)? when single and
\* (?:([0-9]+)<unit>)? otherwise, matched at the start of s: the digits it
\* captured, if it matched, and the text after it.
regex_group(s, unit, single) ==
  LET k == IF single THEN (IF s # <<>> /\ Head(s) \in Digits THEN 1 ELSE 0)
           ELSE DigitRun(s)
  IN IF k >= 1 /\ Len(s) > k /\ s[k + 1] = unit
     THEN [capture |-> Some(SubSeq(s, 1, k)), rest |-> SubSeq(s, k + 2, Len(s))]
     ELSE [capture |-> None, rest |-> s]

\* caps.get(i).map_or("0", ..).parse()
capture_int(c) == IF c = None THEN 0 ELSE parse_int(c[1])

\* The whole seconds of the TimeDelta that duration_parser returns, or None
\* when the regex does not match the whole input.
duration_parser(input) ==
  LET hours == regex_group(input, "h", TRUE)
      minutes == regex_group(hours.rest, "m", FALSE)
      seconds == regex_group(minutes.rest, "s", FALSE)
  IN IF seconds.rest # <<>> THEN None
     ELSE Some(capture_int(hours.capture) * 3600
               + capture_int(minutes.capture) * 60
               + capture_int(seconds.capture))

\* The format the error message of duration_parser describes:
\* <HOURS>h<MINUTES>m<SECONDS>s, each section optional, each number a
\* non-negative decimal integer.
Section(t, unit) ==
  \/ t = <<>>
  \/ /\ Len(t) >= 2
     /\ t[Len(t)] = unit
     /\ \A i \in 1..(Len(t) - 1) : t[i] \in Digits

SectionValue(t) == IF t = <<>> THEN 0 ELSE parse_int(SubSeq(t, 1, Len(t) - 1))

Sections(s) ==
  {c \in (0..Len(s)) \X (0..Len(s)) :
     /\ c[1] <= c[2]
     /\ Section(SubSeq(s, 1, c[1]), "h")
     /\ Section(SubSeq(s, c[1] + 1, c[2]), "m")
     /\ Section(SubSeq(s, c[2] + 1, Len(s)), "s")}

DescribedDuration(s) ==
  IF Sections(s) = {} THEN None
  ELSE LET c == CHOOSE c \in Sections(s) : TRUE IN
       Some(SectionValue(SubSeq(s, 1, c[1])) * 3600
            + SectionValue(SubSeq(s, c[1] + 1, c[2])) * 60
            + SectionValue(SubSeq(s, c[2] + 1, Len(s))))

\* The characters of an input: two digits, the three units and one other.
InputChars == {"0", "1", "h", "m", "s", "x"}

Inputs == UNION {[1..n -> InputChars] : n \in 0..MaxInput}

ParserInit ==
  /\ state_file = None
  /\ history_file = None
  /\ now = 0
  /\ persisted = Inactive
  /\ \E input \in Inputs : last = [op |-> "input", input |-> input]

DurationParser ==
  /\ last.op = "input"
  /\ last' = [op |-> "duration_parser", input |-> last.input,
              parsed |-> duration_parser(last.input)]
  /\ UNCHANGED <<state_file, history_file, now, persisted>>

ParserNext == DurationParser

SpecParser == ParserInit /\ [][ParserNext]_vars

\* C37: duration_parser accepts every text of the format
\* <HOURS>h<MINUTES>m<SECONDS>s, each section optional and each number a
\* non-negative decimal integer, and returns hours*3600 + minutes*60 +
\* seconds; every other text is rejected.
C37_ParserMatchesGrammar ==
  last.op = "duration_parser" => last.parsed = DescribedDuration(last.input)

\* C38: the two kitchen formatters agree: for every non-negative duration of
\* whole seconds, durations of an hour and more included, to_kitchen of
\* TimeDeltaExt and to_kitchen of time::duration give the same text.
C38_KitchenFormattersAgree ==
  last.op = "duration_to_kitchen" => last.text = to_kitchen(last.delta)

(* ------------------ main.rs: the commands that only read --------------- *)

Command_status_discarding(sf, hf, t, io) ==
  LET status == Program_load_state(sf, io) IN
  IF status.tag = "Err" THEN LoadFailed(sf, hf, status)
  ELSE IF status.tag # "Inactive" /\ done(Status_timer(status), t)
  THEN Outcome(None, hf, "Ok", <<>>, status.tag, None)
  ELSE Outcome(sf, hf, "Ok", <<>>, status.tag, None)

\* Command::Status: load_state, then print_status, which only prints.
Command_status(sf, hf, t, io) ==
  LET status == Program_load_state(sf, io) IN
  IF status.tag = "Err" THEN LoadFailed(sf, hf, status)
  ELSE Outcome(sf, hf, "Ok", <<>>, status.tag, None)

\* Command::History: print_history returns at once when there is no history
\* file, and otherwise reads and deserializes it and prints a table.
print_history(sf, hf, io) ==
  IF hf = None THEN Outcome(sf, hf, "Ok", <<>>, "NotLoaded", None)
  ELSE IF io = "load" THEN Rejected(sf, hf, "io error", "NotLoaded")
  ELSE IF History_load(hf) = Panicked
  THEN Rejected(sf, hf, Panicked.msg, "NotLoaded")
  ELSE Outcome(sf, hf, "Ok", <<>>, "NotLoaded", None)

ReadFaults == {"none", "load"}

CommandStatus(F) ==
  \E io \in F :
    Apply("Command_status", Command_status(state_file, history_file, now, io))

CommandHistory(F) ==
  \E io \in F :
    Apply("print_history", print_history(state_file, history_file, io))

\* Status::load called on its own: the caller gets a status or an error.
StatusLoad(F) ==
  \E io \in F :
    LET status == Status_load(state_file, io) IN
    Apply("Status_load",
          Outcome(state_file, history_file,
                  IF status.tag = "Err" THEN status.msg ELSE "Ok",
                  <<>>, status.tag, None))

\* History::load called on its own.
HistoryLoad ==
  Apply("History_load",
        Outcome(state_file, history_file,
                IF History_load(history_file) = Panicked
                THEN Panicked.msg ELSE "Ok",
                <<>>, "NotLoaded", None))

ReadNext ==
  \/ Tick
  \/ Start(NominalHooks, NoFault)
  \/ TakeShortBreak(NominalHooks, NoFault)
  \/ LongBreakStart(NominalHooks, NoFault)
  \/ Finish(NominalHooks, NoFault)
  \/ Clear(NominalHooks, NoFault)
  \/ CommandStatus(ReadFaults)
  \/ CommandHistory(ReadFaults)
  \/ StatusLoad(ReadFaults)
  \/ HistoryLoad

SpecRead == Init /\ [][ReadNext]_vars

ReadOps == {"Command_status", "print_history", "Status_load", "History_load"}

\* C39: the status and history commands and the operations Status::load and
\* History::load never create, modify or delete the state file or the
\* history file, whatever the current status and whether or not they succeed.
C39_ReadOnly ==
  /\ last.op \in ReadOps =>
       /\ ~last.changed
       /\ last.had_state = (state_file # None)
       /\ last.had_history = (history_file # None)
  /\ \A io \in ReadFaults :
       /\ Untouched(Command_status(state_file, history_file, now, io))
       /\ Untouched(print_history(state_file, history_file, io))

C39_Witness ==
  /\ last.op = "Command_status"
  /\ last.loaded = "Active"
  /\ last.result = "Ok"
  /\ done(Loaded.pom.timer, now)
  /\ Entries # <<>>

====
